---------------------------- MODULE Spec2Model ----------------------------
(***************************************************************************)
(* State-machine model of the stock reservation subsystem, the order       *)
(* creation coordinator and the order status lifecycle of the e-commerce   *)
(* backend.  The state is the content of the relational store (products,   *)
(* cart_items, stock_reservations, orders, payments) plus, for every       *)
(* request in flight, its position in the handler and its local values.    *)
(* Every SQL statement the handlers issue is one atomic step; statements   *)
(* issued through the connection pool commit on their own, statements      *)
(* issued through a pgx.Tx become visible at Commit.                       *)
(***************************************************************************)
EXTENDS Integers, Sequences, FiniteSets, TLC

\* ----------------------------------------------------------------- bounds
MaxStock == 3      \* initial stock_quantity of every product
MaxQty   == 2      \* largest quantity a request asks for
MaxCalls == 4      \* number of requests issued in a run of serial requests
MaxRacing == 3     \* number of requests issued in a run of concurrent requests

Products == {"p1", "p2"}
Users    == {"u1", "u2"}          \* one cart per user: the cart id is the user
Procs    == {"w1", "w2"}          \* request goroutines served concurrently
Methods  == {"cc", "cod"}         \* CreateOrderRequest.PaymentMethod (dc behaves as cc)
Price    == [p \in Products |-> IF p = "p1" THEN 2 ELSE 3]   \* products.price

Statuses == {"pending", "processing", "shipped", "delivered", "completed",
             "cancelled", "refunded", "return_requested"}

VARIABLES
    stock_quantity,      \* products.stock_quantity (committed)
    cart_items,          \* cart -> sequence of [product, quantity], newest first
    stock_reservations,  \* cart -> product -> [quantity, live]; quantity 0: no row
    orders,              \* sequence of committed orders; the index is the order id
    payments,            \* sequence of payment rows
    returns,             \* sequence of return rows; the index is the return id
    tx,                  \* proc -> the pgx.Tx it holds open
    pc,                  \* proc -> position in its handler
    call,                \* proc -> arguments and locals of its request
    ret,                 \* proc -> what the finished request returned
    calls,               \* number of requests issued so far
    pre                  \* proc -> store content when its request was issued

db   == <<stock_quantity, cart_items, stock_reservations, orders, payments, returns>>
vars == <<stock_quantity, cart_items, stock_reservations, orders, payments, returns,
          tx, pc, call, ret, calls, pre>>

\* ------------------------------------------------------------ plain values
NoRow   == [quantity |-> 0, live |-> FALSE]
NoDelta == [p \in Products |-> 0]
NoOrder == [user |-> "none", items |-> <<>>, total |-> 0, status |-> "none",
            method |-> "none"]
NoTx    == [open |-> FALSE, delta |-> NoDelta, order |-> NoOrder]
NoCall  == [op |-> "none", user |-> "none", product |-> "none", qty |-> 0,
            rq |-> 0, order |-> 0, target |-> "none", method |-> "none",
            items |-> <<>>, aux |-> <<>>, i |-> 0, cur |-> 0, from |-> "none",
            valid |-> TRUE, stale |-> FALSE, gone |-> FALSE, rid |-> 0]
NoPre   == [taken |-> FALSE, stock |-> NoDelta, items |-> <<>>,
            resv |-> [p \in Products |-> NoRow], norders |-> 0, status |-> "none"]

\* ------------------------------------------------------------ cart lines
HasLine(items, p) == \E k \in 1..Len(items) : items[k].product = p

QtyOf(items, p) ==
    IF HasLine(items, p)
    THEN items[CHOOSE k \in 1..Len(items) : items[k].product = p].quantity
    ELSE 0

SetQty(items, p, q) ==
    [k \in 1..Len(items) |->
        IF items[k].product = p THEN [items[k] EXCEPT !.quantity = q] ELSE items[k]]

DropLine(items, p) == SelectSeq(items, LAMBDA r : r.product # p)

\* ------------------------------------------------------ available stock
\* SumLive without the test sr.expires_at > NOW(): every row counts
RECURSIVE SumRows(_, _)
SumRows(p, carts) ==
    IF carts = {} THEN 0
    ELSE LET c == CHOOSE x \in carts : TRUE
         IN stock_reservations[c][p].quantity + SumRows(p, carts \ {c})

RECURSIVE SumLive(_, _)
SumLive(p, carts) ==
    IF carts = {} THEN 0
    ELSE LET c == CHOOSE x \in carts : TRUE
             r == stock_reservations[c][p]
         IN (IF r.live THEN r.quantity ELSE 0) + SumLive(p, carts \ {c})

\* SELECT p.stock_quantity - COALESCE(SUM(sr.quantity), 0) ... sr.expires_at > NOW()
GetAvailableStock(p) == stock_quantity[p] - SumLive(p, Users)

\* ... AND sr.cart_id != $2
GetAvailableStockExcludingCart(p, c) == stock_quantity[p] - SumLive(p, Users \ {c})

\* productService.CheckStock
CheckStock(p, q) == GetAvailableStock(p) >= q

\* availQuery of ReserveStock's update path: the cart's own row is added back
\* whether or not it is still unexpired
ReserveAvailable(p, c) ==
    stock_quantity[p] - SumLive(p, Users) + stock_reservations[c][p].quantity

\* ------------------------------------------------------------- row locks
\* An UPDATE of a products row inside an open transaction holds the row lock
\* until that transaction ends.
LockedBy(p) == {w \in Procs : tx[w].open /\ tx[w].delta[p] # 0}
RowFree(p, w) == LockedBy(p) \subseteq {w}

\* ------------------------------------------------------------------ Init
Init ==
    /\ stock_quantity = [p \in Products |-> MaxStock]
    /\ cart_items = [c \in Users |-> <<>>]
    /\ stock_reservations = [c \in Users |-> [p \in Products |-> NoRow]]
    /\ orders = <<>>
    /\ payments = <<>>
    /\ returns = <<>>
    /\ tx = [w \in Procs |-> NoTx]
    /\ pc = [w \in Procs |-> "idle"]
    /\ call = [w \in Procs |-> NoCall]
    /\ ret = [w \in Procs |-> "none"]
    /\ calls = 0
    /\ pre = [w \in Procs |-> NoPre]

\* ------------------------------------------------------- control helpers
Goto(w, l) == pc' = [pc EXCEPT ![w] = l]

Finish(w, r) ==
    /\ pc' = [pc EXCEPT ![w] = "done"]
    /\ ret' = [ret EXCEPT ![w] = r]

\* Deleting cart_items rows invalidates the item ids other requests of the
\* same cart loaded earlier.
MarkGone(w, c, ps) ==
    [x \in Procs |->
        IF x # w /\ call[x].user = c /\ call[x].product \in ps
        THEN [call[x] EXCEPT !.gone = TRUE] ELSE call[x]]

\* ---------------------------------------------------- issuing a request
Snapshot(c, o) ==
    [taken |-> TRUE, stock |-> stock_quantity,
     items |-> IF c \in Users THEN cart_items[c] ELSE <<>>,
     resv |-> IF c \in Users THEN stock_reservations[c] ELSE [p \in Products |-> NoRow],
     norders |-> Len(orders),
     status |-> IF o \in 1..Len(orders) THEN orders[o].status ELSE "none"]

\* A goroutine started with `go` by a handler: it serves no request
Background(w) == pc[w] \in {"sim_pay", "sim_status"}

\* A request arrives: serial requests wait for the previous one to return and
\* record the store content they start from.
Issue(w, serial, c, first) ==
    /\ pc[w] = "idle"
    /\ calls < (IF serial THEN MaxCalls ELSE MaxRacing)
    /\ serial => \A x \in Procs : pc[x] = "idle" \/ Background(x)
    /\ calls' = calls + 1
    /\ call' = [call EXCEPT ![w] = c]
    /\ pc' = [pc EXCEPT ![w] = first]
    /\ pre' = IF serial THEN [pre EXCEPT ![w] = Snapshot(c.user, c.order)] ELSE pre
    /\ UNCHANGED <<db, tx, ret>>

\* The handler returned; the goroutine serves the next request.
Return(w) ==
    /\ pc[w] = "done"
    /\ pc' = [pc EXCEPT ![w] = "idle"]
    /\ call' = [call EXCEPT ![w] = NoCall]
    /\ ret' = [ret EXCEPT ![w] = "none"]
    /\ pre' = [pre EXCEPT ![w] = NoPre]
    /\ UNCHANGED <<db, tx, calls>>

StartAddToCart(w, serial) ==
    \E u \in Users, p \in Products, q \in 1..MaxQty :
        Issue(w, serial,
              [NoCall EXCEPT !.op = "AddToCart", !.user = u, !.product = p,
                             !.qty = q, !.rq = q],
              "at_check")

StartUpdateCartItem(w, serial) ==
    \E u \in Users, p \in Products, q \in 1..MaxQty :
        Issue(w, serial,
              [NoCall EXCEPT !.op = "UpdateCartItem", !.user = u, !.product = p,
                             !.qty = q],
              "uc_get")

StartRemoveFromCart(w, serial) ==
    \E u \in Users, p \in Products :
        Issue(w, serial,
              [NoCall EXCEPT !.op = "RemoveFromCart", !.user = u, !.product = p],
              "rm_get")

StartClearCart(w, serial) ==
    \E u \in Users :
        Issue(w, serial, [NoCall EXCEPT !.op = "ClearCart", !.user = u], "cl_get")

\* ------------------------------------------------------------ AddToCart
\* cartService.AddToCart: CheckStock, then productService.ReserveStock, which
\* fixes expiresAt = now + 10 minutes before the repository runs.
AtCheckStock(w) ==
    /\ pc[w] = "at_check"
    /\ IF CheckStock(call[w].product, call[w].qty)
       THEN /\ Goto(w, "rs_get")
            /\ call' = [call EXCEPT ![w].stale = FALSE]
            /\ UNCHANGED ret
       ELSE /\ Finish(w, "insufficient stock")
            /\ UNCHANGED call
    /\ UNCHANGED <<db, tx, calls, pre>>

\* productRepository.ReserveStock.  pg_advisory_xact_lock is executed on the
\* pool as a statement of its own, so the lock is released when that statement
\* ends and holds nothing for the statements that follow.
\* checkQuery: SELECT quantity FROM stock_reservations WHERE product, cart
RsGet(w) ==
    /\ pc[w] = "rs_get"
    /\ LET row == stock_reservations[call[w].user][call[w].product] IN
       IF row.quantity > 0
       THEN /\ call' = [call EXCEPT ![w].cur = row.quantity]
            /\ Goto(w, "rs_avail")
       ELSE /\ Goto(w, "rs_insert")
            /\ UNCHANGED call
    /\ UNCHANGED <<db, tx, ret, calls, pre>>

\* availQuery and the comparison with newTotalQuantity
RsAvail(w) ==
    /\ pc[w] = "rs_avail"
    /\ IF ReserveAvailable(call[w].product, call[w].user) < call[w].cur + call[w].rq
       THEN Finish(w, "insufficient stock")
       ELSE Goto(w, "rs_update") /\ UNCHANGED ret
    /\ UNCHANGED <<db, tx, call, calls, pre>>

\* Where the handler continues once ReserveStock has returned nil
AfterReserve(w) == IF call[w].op = "AddToCart" THEN "ai_get" ELSE "uc_update"

\* updateQuery: UPDATE stock_reservations SET quantity = newTotalQuantity,
\* expires_at = to_timestamp(expiresAt); no row matched is not an error
RsUpdate(w) ==
    /\ pc[w] = "rs_update"
    /\ LET c == call[w].user
           p == call[w].product
       IN stock_reservations' =
            IF stock_reservations[c][p].quantity > 0
            THEN [stock_reservations EXCEPT
                    ![c][p] = [quantity |-> call[w].cur + call[w].rq,
                               live |-> ~call[w].stale]]
            ELSE stock_reservations
    /\ Goto(w, AfterReserve(w))
    /\ UNCHANGED <<stock_quantity, cart_items, orders, payments, returns, tx, call, ret,
                   calls, pre>>

\* INSERT INTO stock_reservations ... SELECT ... FROM available_stock
\* WHERE available >= quantity; UNIQUE(product_id, cart_id)
RsInsert(w) ==
    /\ pc[w] = "rs_insert"
    /\ LET c == call[w].user
           p == call[w].product
       IN IF stock_reservations[c][p].quantity > 0
          THEN /\ Finish(w, "error")
               /\ UNCHANGED stock_reservations
          ELSE IF GetAvailableStock(p) >= call[w].rq
               THEN /\ stock_reservations' =
                         [stock_reservations EXCEPT
                            ![c][p] = [quantity |-> call[w].rq,
                                       live |-> ~call[w].stale]]
                    /\ Goto(w, AfterReserve(w))
                    /\ UNCHANGED ret
               ELSE /\ Finish(w, "insufficient stock")
                    /\ UNCHANGED stock_reservations
    /\ UNCHANGED <<stock_quantity, cart_items, orders, payments, returns, tx, call, calls, pre>>

\* cartRepository.AddItem, checkQuery
AiGet(w) ==
    /\ pc[w] = "ai_get"
    /\ Goto(w, IF HasLine(cart_items[call[w].user], call[w].product)
               THEN "ai_update" ELSE "ai_insert")
    /\ UNCHANGED <<db, tx, call, ret, calls, pre>>

\* AiUpdate that sets the line's quantity to the added quantity
AiUpdateOverwrites(w) ==
    /\ pc[w] = "ai_update"
    /\ LET c == call[w].user
           p == call[w].product
       IN cart_items' = [cart_items EXCEPT ![c] = SetQty(@, p, call[w].qty)]
    /\ Finish(w, "ok")
    /\ UNCHANGED <<stock_quantity, stock_reservations, orders, payments, returns, tx, call,
                   calls, pre>>

\* UPDATE cart_items SET quantity = quantity + $1
AiUpdate(w) ==
    /\ pc[w] = "ai_update"
    /\ LET c == call[w].user
           p == call[w].product
       IN cart_items' = [cart_items EXCEPT
             ![c] = SetQty(@, p, QtyOf(@, p) + call[w].qty)]
    /\ Finish(w, "ok")
    /\ UNCHANGED <<stock_quantity, stock_reservations, orders, payments, returns, tx, call,
                   calls, pre>>

\* INSERT INTO cart_items; UNIQUE(cart_id, product_id) rejects a second row,
\* and AddToCart then releases the reservation
AiInsert(w) ==
    /\ pc[w] = "ai_insert"
    /\ LET c == call[w].user
           p == call[w].product
       IN IF HasLine(cart_items[c], p)
          THEN /\ Goto(w, "at_release")
               /\ UNCHANGED <<cart_items, ret>>
          ELSE /\ cart_items' = [cart_items EXCEPT
                     ![c] = <<[product |-> p, quantity |-> call[w].qty]>> \o @]
               /\ Finish(w, "ok")
    /\ UNCHANGED <<stock_quantity, stock_reservations, orders, payments, returns, tx, call,
                   calls, pre>>

\* productRepository.ReleaseStockReservation: DELETE FROM stock_reservations
Released(c, p) == [stock_reservations EXCEPT ![c][p] = NoRow]

AtRelease(w) ==
    /\ pc[w] = "at_release"
    /\ stock_reservations' = Released(call[w].user, call[w].product)
    /\ Finish(w, "error")
    /\ UNCHANGED <<stock_quantity, cart_items, orders, payments, returns, tx, call, calls, pre>>

\* ------------------------------------------------------- UpdateCartItem
\* GetByUserID, the search for itemID and quantityDiff
UcGet(w) ==
    /\ pc[w] = "uc_get"
    /\ LET items == cart_items[call[w].user]
           p     == call[w].product
           diff  == call[w].qty - QtyOf(items, p)
       IN IF ~HasLine(items, p)
          THEN /\ Finish(w, "cart item not found")
               /\ UNCHANGED call
          ELSE /\ call' = [call EXCEPT ![w].rq = diff, ![w].gone = FALSE]
               /\ Goto(w, IF diff > 0 THEN "uc_check"
                          ELSE IF diff < 0 THEN "uc_release" ELSE "uc_update")
               /\ UNCHANGED ret
    /\ UNCHANGED <<db, tx, calls, pre>>

\* quantityDiff > 0: CheckStock(quantityDiff), then ReserveStock(quantityDiff)
UcCheck(w) ==
    /\ pc[w] = "uc_check"
    /\ IF CheckStock(call[w].product, call[w].rq)
       THEN /\ Goto(w, "rs_get")
            /\ call' = [call EXCEPT ![w].stale = FALSE]
            /\ UNCHANGED ret
       ELSE /\ Finish(w, "insufficient stock")
            /\ UNCHANGED call
    /\ UNCHANGED <<db, tx, calls, pre>>

\* quantityDiff < 0: ReleaseStockReservation deletes the whole row
UcRelease(w) ==
    /\ pc[w] = "uc_release"
    /\ stock_reservations' = Released(call[w].user, call[w].product)
    /\ Goto(w, "uc_update")
    /\ UNCHANGED <<stock_quantity, cart_items, orders, payments, returns, tx, call, ret,
                   calls, pre>>

\* cartRepository.UpdateItem: UPDATE cart_items SET quantity WHERE id = itemID
UcUpdate(w) ==
    /\ pc[w] = "uc_update"
    /\ LET c == call[w].user
           p == call[w].product
       IN IF ~call[w].gone /\ HasLine(cart_items[c], p)
          THEN /\ cart_items' = [cart_items EXCEPT ![c] = SetQty(@, p, call[w].qty)]
               /\ Finish(w, "ok")
          ELSE /\ Finish(w, "cart item not found")
               /\ UNCHANGED cart_items
    /\ UNCHANGED <<stock_quantity, stock_reservations, orders, payments, returns, tx, call,
                   calls, pre>>

\* ------------------------------------------------------- RemoveFromCart
RmGet(w) ==
    /\ pc[w] = "rm_get"
    /\ IF ~HasLine(cart_items[call[w].user], call[w].product)
       THEN /\ Finish(w, "cart item not found")
            /\ UNCHANGED call
       ELSE /\ call' = [call EXCEPT ![w].gone = FALSE]
            /\ Goto(w, "rm_release")
            /\ UNCHANGED ret
    /\ UNCHANGED <<db, tx, calls, pre>>

RmRelease(w) ==
    /\ pc[w] = "rm_release"
    /\ stock_reservations' = Released(call[w].user, call[w].product)
    /\ Goto(w, "rm_delete")
    /\ UNCHANGED <<stock_quantity, cart_items, orders, payments, returns, tx, call, ret,
                   calls, pre>>

\* cartRepository.RemoveItem: DELETE FROM cart_items WHERE id = itemID
RmDelete(w) ==
    /\ pc[w] = "rm_delete"
    /\ LET c == call[w].user
           p == call[w].product
       IN IF ~call[w].gone /\ HasLine(cart_items[c], p)
          THEN /\ cart_items' = [cart_items EXCEPT ![c] = DropLine(@, p)]
               /\ call' = MarkGone(w, c, {p})
               /\ Finish(w, "ok")
          ELSE /\ Finish(w, "cart item not found")
               /\ UNCHANGED <<cart_items, call>>
    /\ UNCHANGED <<stock_quantity, stock_reservations, orders, payments, returns, tx,
                   calls, pre>>

\* ------------------------------------------------------------ ClearCart
\* cartService.ClearCart, also called by CreateOrder: GetByUserID
ClGet(w) ==
    /\ pc[w] = "cl_get"
    /\ call' = [call EXCEPT ![w].aux = cart_items[call[w].user], ![w].i = 1]
    /\ Goto(w, IF cart_items[call[w].user] = <<>> THEN "cl_delete" ELSE "cl_release")
    /\ UNCHANGED <<db, tx, ret, calls, pre>>

\* for _, item := range cart.Items { ReleaseStockReservation(...) }
ClRelease(w) ==
    /\ pc[w] = "cl_release"
    /\ stock_reservations' = Released(call[w].user, call[w].aux[call[w].i].product)
    /\ call' = [call EXCEPT ![w].i = @ + 1]
    /\ Goto(w, IF call[w].i = Len(call[w].aux) THEN "cl_delete" ELSE "cl_release")
    /\ UNCHANGED <<stock_quantity, cart_items, orders, payments, returns, tx, ret, calls, pre>>

\* cartRepository.ClearCart: DELETE FROM cart_items WHERE cart_id
ClDelete(w) ==
    /\ pc[w] = "cl_delete"
    /\ cart_items' = [cart_items EXCEPT ![call[w].user] = <<>>]
    /\ call' = MarkGone(w, call[w].user, Products)
    /\ IF call[w].op = "ClearCart"
       THEN Finish(w, "ok")
       ELSE Goto(w, "co_commit") /\ UNCHANGED ret
    /\ UNCHANGED <<stock_quantity, stock_reservations, orders, payments, returns, tx,
                   calls, pre>>

\* ----------------------------------------------------------------- time
\* Ten minutes pass: every reservation row now in the table is past its
\* expires_at, and so is the expiresAt a ReserveStock in flight has computed.
InReserve(w) == pc[w] \in {"rs_get", "rs_avail", "rs_update", "rs_insert"}

TimePasses ==
    /\ \E c \in Users, p \in Products : stock_reservations[c][p].live
    /\ stock_reservations' =
         [c \in Users |-> [p \in Products |->
             [stock_reservations[c][p] EXCEPT !.live = FALSE]]]
    /\ call' = [w \in Procs |->
                  IF InReserve(w) THEN [call[w] EXCEPT !.stale = TRUE] ELSE call[w]]
    /\ UNCHANGED <<stock_quantity, cart_items, orders, payments, returns, tx, pc, ret,
                   calls, pre>>

\* ---------------------------------------------------------- CreateOrder
StartCreateOrder(w, serial) ==
    \E u \in Users, m \in Methods :
        Issue(w, serial, [NoCall EXCEPT !.op = "CreateOrder", !.user = u, !.method = m],
              "co_get")

\* cartRepo.GetByUserID and the empty-cart test
CoGetCart(w) ==
    /\ pc[w] = "co_get"
    /\ IF cart_items[call[w].user] = <<>>
       THEN /\ Finish(w, "cart is empty")
            /\ UNCHANGED call
       ELSE /\ call' = [call EXCEPT ![w].items = cart_items[call[w].user]]
            /\ Goto(w, "va_load")
            /\ UNCHANGED ret
    /\ UNCHANGED <<db, tx, calls, pre>>

\* cartService.ValidateCart: GetCartWithItems.  A cart found empty here is
\* valid, and CreateOrder goes on to BeginTx.
VaLoad(w) ==
    /\ pc[w] = "va_load"
    /\ LET loaded == cart_items[call[w].user] IN
       IF loaded = <<>>
       THEN /\ call' = [call EXCEPT ![w].aux = loaded, ![w].i = 1, ![w].valid = TRUE]
            /\ tx' = [tx EXCEPT ![w].open = TRUE]
            /\ Goto(w, "co_deduct")
       ELSE /\ call' = [call EXCEPT ![w].aux = loaded, ![w].i = 1, ![w].valid = TRUE]
            /\ Goto(w, "va_check")
            /\ UNCHANGED tx
    /\ UNCHANGED <<db, ret, calls, pre>>

\* One line of ValidateCart's loop: CheckStock(item.ProductID, item.Quantity).
\* After the last line CreateOrder either returns the validation error or
\* opens its transaction (orderRepo.BeginTx).
LineIsValid(p, c, q) == CheckStock(p, q)

\* VaCheck that goes on to the transaction whatever the validation found
VaCheckIgnoringResult(w) ==
    /\ pc[w] = "va_check"
    /\ LET item  == call[w].aux[call[w].i]
           ok    == call[w].valid /\ LineIsValid(item.product, call[w].user, item.quantity)
           last  == call[w].i = Len(call[w].aux)
       IN IF ~last
          THEN /\ call' = [call EXCEPT ![w].valid = ok, ![w].i = @ + 1]
               /\ UNCHANGED <<pc, ret, tx>>
          ELSE /\ call' = [call EXCEPT ![w].valid = ok, ![w].i = 1]
               /\ tx' = [tx EXCEPT ![w].open = TRUE]
               /\ Goto(w, "co_deduct")
               /\ UNCHANGED ret
    /\ UNCHANGED <<db, calls, pre>>

VaCheck(w) ==
    /\ pc[w] = "va_check"
    /\ LET item  == call[w].aux[call[w].i]
           ok    == call[w].valid /\ LineIsValid(item.product, call[w].user, item.quantity)
           last  == call[w].i = Len(call[w].aux)
       IN IF ~last
          THEN /\ call' = [call EXCEPT ![w].valid = ok, ![w].i = @ + 1]
               /\ UNCHANGED <<pc, ret, tx>>
          ELSE IF ok
               THEN /\ call' = [call EXCEPT ![w].valid = ok, ![w].i = 1]
                    /\ tx' = [tx EXCEPT ![w].open = TRUE]
                    /\ Goto(w, "co_deduct")
                    /\ UNCHANGED ret
               ELSE /\ call' = [call EXCEPT ![w].valid = ok]
                    /\ Finish(w, "cart validation failed")
                    /\ UNCHANGED tx
    /\ UNCHANGED <<db, calls, pre>>

\* A rollback that leaves the transaction open with what it has deducted
RollbackLeavesOpen(w) == tx' = tx

\* tx.Rollback: the deferred rollback of a transaction that was not committed
Rollback(w) == tx' = [tx EXCEPT ![w] = NoTx]

\* A database that never detects a deadlock
NeverDeadlocked(w) == FALSE

\* Two transactions each waiting for a products row the other has updated:
\* PostgreSQL's deadlock detector aborts the statement of one of them.
Wants(w) ==
    IF pc[w] = "co_deduct" /\ call[w].i \in 1..Len(call[w].items)
    THEN call[w].items[call[w].i].product ELSE "none"

Deadlocked(w) ==
    \E x \in Procs \ {w} :
        /\ Wants(w) \in Products /\ x \in LockedBy(Wants(w))
        /\ Wants(x) \in Products /\ w \in LockedBy(Wants(x))

\* CoDeduct whose UPDATE clamps the quantity to zero instead of failing
CoDeductClamping(w) ==
    /\ pc[w] = "co_deduct"
    /\ IF call[w].items = <<>>
       THEN /\ Goto(w, "co_insert")
            /\ UNCHANGED <<tx, call, ret>>
       ELSE LET item == call[w].items[call[w].i]
                p    == item.product
                now  == stock_quantity[p] + tx[w].delta[p]
            IN /\ RowFree(p, w) \/ Deadlocked(w)
               /\ IF RowFree(p, w)
                  THEN /\ tx' = [tx EXCEPT ![w].delta[p] =
                                   IF now - item.quantity >= 0 THEN @ - item.quantity
                                   ELSE 0 - stock_quantity[p]]
                       /\ call' = [call EXCEPT ![w].i = @ + 1]
                       /\ Goto(w, IF call[w].i = Len(call[w].items)
                                  THEN "co_insert" ELSE "co_deduct")
                       /\ UNCHANGED ret
                  ELSE /\ Rollback(w)
                       /\ Finish(w, "failed to update stock")
                       /\ UNCHANGED call
    /\ UNCHANGED <<db, calls, pre>>

\* productRepository.UpdateStockWithTx(tx, id, -quantity):
\* UPDATE products SET stock_quantity = stock_quantity + $1
\* WHERE id = $2 AND stock_quantity + $1 >= 0 RETURNING stock_quantity
\* (no row returned: Scan fails with ErrNoRows and CreateOrder rolls back)
CoDeduct(w) ==
    /\ pc[w] = "co_deduct"
    /\ IF call[w].items = <<>>
       THEN /\ Goto(w, "co_insert")
            /\ UNCHANGED <<tx, call, ret>>
       ELSE LET item == call[w].items[call[w].i]
                p    == item.product
                now  == stock_quantity[p] + tx[w].delta[p]
            IN /\ RowFree(p, w) \/ Deadlocked(w)
               /\ IF RowFree(p, w) /\ now - item.quantity >= 0
                  THEN /\ tx' = [tx EXCEPT ![w].delta[p] = @ - item.quantity]
                       /\ call' = [call EXCEPT ![w].i = @ + 1]
                       /\ Goto(w, IF call[w].i = Len(call[w].items)
                                  THEN "co_insert" ELSE "co_deduct")
                       /\ UNCHANGED ret
                  ELSE /\ Rollback(w)
                       /\ Finish(w, "failed to update stock")
                       /\ UNCHANGED call
    /\ UNCHANGED <<db, calls, pre>>

\* The order CreateOrder builds from the cart it loaded: one order line per
\* cart line at the product's price, total = sum of price * quantity
OrderLines(items) ==
    [k \in 1..Len(items) |->
        [product |-> items[k].product, quantity |-> items[k].quantity,
         price |-> Price[items[k].product]]]

RECURSIVE TotalAmount(_)
TotalAmount(lines) ==
    IF lines = <<>> THEN 0
    ELSE lines[1].price * lines[1].quantity + TotalAmount(Tail(lines))

\* NewOrder whose total adds the prices and forgets the quantities
NewOrderTotalOfPrices(u, m, items) ==
    [user |-> u, items |-> OrderLines(items),
     total |-> TotalAmount([k \in 1..Len(items) |->
                              [price |-> Price[items[k].product], quantity |-> 1]]),
     status |-> "pending", method |-> m]

NewOrder(u, m, items) ==
    [user |-> u, items |-> OrderLines(items), total |-> TotalAmount(OrderLines(items)),
     status |-> "pending", method |-> m]

\* orderRepo.CreateWithTx: INSERT INTO orders, INSERT INTO order_items (in tx),
\* then cartSvc.ClearCart, which runs on the pool, outside the transaction
CoInsert(w) ==
    /\ pc[w] = "co_insert"
    /\ tx' = [tx EXCEPT ![w].order = NewOrder(call[w].user, call[w].method, call[w].items)]
    /\ Goto(w, "cl_get")
    /\ UNCHANGED <<db, call, ret, calls, pre>>

\* What tx.Commit makes visible: the stock deductions and the order
Committed(w) ==
    /\ stock_quantity' = [p \in Products |-> stock_quantity[p] + tx[w].delta[p]]
    /\ orders' = Append(orders, tx[w].order)

\* tx.Commit, then the payment for card methods
CoCommit(w) ==
    /\ pc[w] = "co_commit"
    /\ Committed(w)
    /\ tx' = [tx EXCEPT ![w] = NoTx]
    /\ call' = [call EXCEPT ![w].order = Len(orders) + 1]
    /\ IF call[w].method \in {"cc", "dc"}
       THEN Goto(w, "pay_check") /\ UNCHANGED ret
       ELSE Finish(w, "ok")
    /\ UNCHANGED <<cart_items, stock_reservations, payments, returns, calls, pre>>

\* ------------------------------------------- paymentService.CreatePaymentForOrder
HasPayment(o) == \E k \in 1..Len(payments) : payments[k].order = o

\* orderRepo.GetByID and paymentRepo.GetByOrderID
PayCheck(w) ==
    /\ pc[w] = "pay_check"
    /\ IF HasPayment(call[w].order)
       THEN Finish(w, "payment already exists")
       ELSE Goto(w, "pay_create") /\ UNCHANGED ret
    /\ UNCHANGED <<db, tx, call, calls, pre>>

\* paymentRepo.Create with Amount = order.TotalAmount, Status = completed
PayCreate(w) ==
    /\ pc[w] = "pay_create"
    /\ payments' = Append(payments,
          [order |-> call[w].order, amount |-> orders[call[w].order].total,
           method |-> call[w].method, status |-> "completed"])
    /\ Goto(w, "pay_status")
    /\ UNCHANGED <<stock_quantity, cart_items, stock_reservations, orders, returns, tx, call,
                   ret, calls, pre>>

\* orderRepository.UpdateStatus: UPDATE orders SET status = $1 WHERE id = $2
StatusWritten(o, s) == [orders EXCEPT ![o].status = s]

\* PayStatus that leaves the order's status as it is
PayStatusNotWritten(w) ==
    /\ pc[w] = "pay_status"
    /\ Finish(w, "ok")
    /\ UNCHANGED <<db, tx, call, calls, pre>>

\* _ = s.orderRepo.UpdateStatus(ctx, orderID, models.OrderProcessing)
PayStatus(w) ==
    /\ pc[w] = "pay_status"
    /\ orders' = StatusWritten(call[w].order, "processing")
    /\ Finish(w, "ok")
    /\ UNCHANGED <<stock_quantity, cart_items, stock_reservations, payments, returns, tx, call,
                   calls, pre>>

\* ---------------------------------------------------------- CancelOrder
StartCancelOrder(w, serial) ==
    \E u \in Users, o \in 1..Len(orders) :
        Issue(w, serial, [NoCall EXCEPT !.op = "CancelOrder", !.user = u, !.order = o],
              "ca_get")

\* Cancellable without the test that the order is not cancelled already
CancellableAgain(s) == s \in {"pending", "processing", "cancelled"}

\* order.Status != pending && order.Status != processing
Cancellable(s) == s \in {"pending", "processing"}

\* CaGet without the ownership test
CaGetAnyCaller(w) ==
    /\ pc[w] = "ca_get"
    /\ LET order == orders[call[w].order] IN
       IF ~Cancellable(order.status)
       THEN /\ call' = [call EXCEPT ![w].from = order.status]
            /\ Finish(w, "cannot be cancelled")
            /\ UNCHANGED tx
       ELSE /\ call' = [call EXCEPT ![w].items = order.items, ![w].i = 1,
                                    ![w].from = order.status]
            /\ tx' = [tx EXCEPT ![w].open = TRUE]
            /\ Goto(w, "ca_restore")
            /\ UNCHANGED ret
    /\ UNCHANGED <<db, calls, pre>>

\* orderRepo.GetByID, the ownership and status tests, orderRepo.BeginTx
CaGet(w) ==
    /\ pc[w] = "ca_get"
    /\ LET order == orders[call[w].order] IN
       IF order.user # call[w].user
       THEN /\ Finish(w, "unauthorized")
            /\ UNCHANGED <<call, tx>>
       ELSE IF ~Cancellable(order.status)
            THEN /\ call' = [call EXCEPT ![w].from = order.status]
                 /\ Finish(w, "cannot be cancelled")
                 /\ UNCHANGED tx
            ELSE /\ call' = [call EXCEPT ![w].items = order.items, ![w].i = 1,
                                         ![w].from = order.status]
                 /\ tx' = [tx EXCEPT ![w].open = TRUE]
                 /\ Goto(w, "ca_restore")
                 /\ UNCHANGED ret
    /\ UNCHANGED <<db, calls, pre>>

\* productRepository.UpdateStock(id, quantity), executed on the pool:
\* UPDATE products SET stock_quantity = stock_quantity + $1
\* WHERE id = $2 AND stock_quantity + $1 >= 0
UpdateStock(p, d) ==
    IF stock_quantity[p] + d >= 0
    THEN [stock_quantity EXCEPT ![p] = @ + d]
    ELSE stock_quantity

\* for _, item := range order.Items { UpdateStock(item.ProductID, item.Quantity) }
CaRestore(w) ==
    /\ pc[w] = "ca_restore"
    /\ LET item == call[w].items[call[w].i] IN
       /\ LockedBy(item.product) = {}
       /\ stock_quantity' = UpdateStock(item.product, item.quantity)
    /\ call' = [call EXCEPT ![w].i = @ + 1]
    /\ Goto(w, IF call[w].i = Len(call[w].items) THEN "ca_status" ELSE "ca_restore")
    /\ UNCHANGED <<cart_items, stock_reservations, orders, payments, returns, tx, ret, calls, pre>>

\* orderRepo.UpdateStatus(orderID, cancelled) on the pool, then tx.Commit of
\* the transaction, which holds no statement
CaStatus(w) ==
    /\ pc[w] = "ca_status"
    /\ orders' = StatusWritten(call[w].order, "cancelled")
    /\ tx' = [tx EXCEPT ![w] = NoTx]
    /\ Finish(w, "ok")
    /\ UNCHANGED <<stock_quantity, cart_items, stock_reservations, payments, returns, call,
                   calls, pre>>

\* ---------------------------------------------------- UpdateOrderStatus
StartUpdateOrderStatus(w, serial) ==
    \E o \in 1..Len(orders), t \in Statuses :
        Issue(w, serial,
              [NoCall EXCEPT !.op = "UpdateOrderStatus", !.order = o, !.target = t],
              "us_get")

\* The transitions map of isValidStatusTransition
Transitions(from) ==
    CASE from = "pending"    -> {"processing", "cancelled"}
      [] from = "processing" -> {"shipped", "cancelled"}
      [] from = "shipped"    -> {"delivered"}
      [] from = "delivered"  -> {"completed"}
      [] OTHER               -> {}

\* isValidStatusTransition looking the map up by the target status
isValidStatusTransitionByTarget(from, to) == from \in Transitions(to)

isValidStatusTransition(from, to) == to \in Transitions(from)

\* UsGet without the same-status shortcut
UsGetNoShortcut(w) ==
    /\ pc[w] = "us_get"
    /\ LET order == orders[call[w].order] IN
       /\ call' = [call EXCEPT ![w].from = order.status, ![w].method = order.method]
       /\ IF ~isValidStatusTransition(order.status, call[w].target)
          THEN Finish(w, "invalid status transition")
          ELSE Goto(w, "us_write") /\ UNCHANGED ret
    /\ UNCHANGED <<db, tx, calls, pre>>

\* orderRepo.GetByID, the same-status shortcut and the transition test
UsGet(w) ==
    /\ pc[w] = "us_get"
    /\ LET order == orders[call[w].order] IN
       /\ call' = [call EXCEPT ![w].from = order.status, ![w].method = order.method]
       /\ IF order.status = call[w].target
          THEN Finish(w, "ok")
          ELSE IF ~isValidStatusTransition(order.status, call[w].target)
               THEN Finish(w, "invalid status transition")
               ELSE Goto(w, "us_write") /\ UNCHANGED ret
    /\ UNCHANGED <<db, tx, calls, pre>>

\* orderRepo.UpdateStatus(orderID, status)
UsWrite(w) ==
    /\ pc[w] = "us_write"
    /\ orders' = StatusWritten(call[w].order, call[w].target)
    /\ IF call[w].target = "delivered" /\ call[w].method = "cod"
       THEN Goto(w, "us_pay") /\ UNCHANGED ret
       ELSE Finish(w, "ok")
    /\ UNCHANGED <<stock_quantity, cart_items, stock_reservations, payments, returns, tx, call,
                   calls, pre>>

\* paymentSvc.GetPaymentByOrderID: paymentRepository.GetByOrderID returns the
\* Scan error pgx.ErrNoRows when the order has no payment, so UpdateOrderStatus
\* returns that error; with a payment found nothing is created.
UsPay(w) ==
    /\ pc[w] = "us_pay"
    /\ IF HasPayment(call[w].order)
       THEN Finish(w, "ok")
       ELSE Finish(w, "error")
    /\ UNCHANGED <<db, tx, call, calls, pre>>

\* -------------------------------------------- paymentService.CreatePayment
StartCreatePayment(w, serial) ==
    \E u \in Users, o \in 1..Len(orders), m \in Methods :
        Issue(w, serial,
              [NoCall EXCEPT !.op = "CreatePayment", !.user = u, !.order = o,
                             !.method = m],
              "cp_get")

\* orderRepo.GetByID, the ownership test and paymentRepo.GetByOrderID; the
\* order's status is not looked at
CpGet(w) ==
    /\ pc[w] = "cp_get"
    /\ IF orders[call[w].order].user # call[w].user
       THEN Finish(w, "unauthorized")
       ELSE IF HasPayment(call[w].order)
            THEN Finish(w, "payment already exists")
            ELSE Goto(w, "cp_create") /\ UNCHANGED ret
    /\ UNCHANGED <<db, tx, call, calls, pre>>

\* paymentRepo.Create with Status = pending, then
\* go s.simulatePaymentProcessing(ctx, payment.ID): the goroutine g starts and
\* CreatePayment returns.  One such goroutine runs at a time.
CpCreate(w) ==
    /\ pc[w] = "cp_create"
    /\ \E g \in Procs \ {w} :
          /\ pc[g] = "idle"
          /\ pc' = [pc EXCEPT ![w] = "done", ![g] = "sim_pay"]
          /\ call' = [call EXCEPT ![g] =
                        [NoCall EXCEPT !.op = "simulatePaymentProcessing",
                                       !.i = Len(payments) + 1]]
    /\ ret' = [ret EXCEPT ![w] = "ok"]
    /\ payments' = Append(payments,
          [order |-> call[w].order, amount |-> orders[call[w].order].total,
           method |-> call[w].method, status |-> "pending"])
    /\ UNCHANGED <<stock_quantity, cart_items, stock_reservations, orders, returns, tx,
                   calls, pre>>

\* simulatePaymentProcessing after its sleep:
\* paymentRepo.UpdateStatus(paymentID, completed)
SimPay(g) ==
    /\ pc[g] = "sim_pay"
    /\ payments' = [payments EXCEPT ![call[g].i].status = "completed"]
    /\ Goto(g, "sim_status")
    /\ UNCHANGED <<stock_quantity, cart_items, stock_reservations, orders, returns, tx, call,
                   ret, calls, pre>>

\* paymentRepo.GetByID, then orderRepo.UpdateStatus(payment.OrderID, processing),
\* whatever the order's status is; the goroutine ends
SimStatus(g) ==
    /\ pc[g] = "sim_status"
    /\ orders' = StatusWritten(payments[call[g].i].order, "processing")
    /\ pc' = [pc EXCEPT ![g] = "idle"]
    /\ call' = [call EXCEPT ![g] = NoCall]
    /\ UNCHANGED <<stock_quantity, cart_items, stock_reservations, payments, returns, tx,
                   ret, calls, pre>>

\* The goroutine runs on the context of the request that started it: once that
\* context is cancelled its statements fail, their errors are dropped and the
\* goroutine ends having written nothing more
SimCancelled(g) ==
    /\ Background(g)
    /\ pc' = [pc EXCEPT ![g] = "idle"]
    /\ call' = [call EXCEPT ![g] = NoCall]
    /\ UNCHANGED <<db, tx, ret, calls, pre>>

\* -------------------------------------------- paymentService.ProcessRefund
StartProcessRefund(w, serial) ==
    \E k \in 1..Len(payments), over \in {0, 1} :
        Issue(w, serial,
              [NoCall EXCEPT !.op = "ProcessRefund", !.i = k,
                             !.order = payments[k].order,
                             !.qty = payments[k].amount + over],
              "rf_get")

\* paymentRepo.GetByID, the completed test and the amount test
RfGet(w) ==
    /\ pc[w] = "rf_get"
    /\ LET payment == payments[call[w].i] IN
       IF payment.status # "completed"
       THEN Finish(w, "can only refund completed payments")
       ELSE IF call[w].qty > payment.amount
            THEN Finish(w, "refund amount cannot exceed payment amount")
            ELSE Goto(w, "rf_pay") /\ UNCHANGED ret
    /\ UNCHANGED <<db, tx, call, calls, pre>>

\* paymentRepo.UpdateStatusWithRefund(paymentID, refunded, amount)
RfPay(w) ==
    /\ pc[w] = "rf_pay"
    /\ payments' = [payments EXCEPT ![call[w].i].status = "refunded"]
    /\ Goto(w, "rf_status")
    /\ UNCHANGED <<stock_quantity, cart_items, stock_reservations, orders, returns, tx, call,
                   ret, calls, pre>>

\* orderRepo.UpdateStatus(payment.OrderID, refunded), whatever the order's status is
RfStatus(w) ==
    /\ pc[w] = "rf_status"
    /\ orders' = StatusWritten(call[w].order, "refunded")
    /\ IF call[w].op = "ProcessReturn"
       THEN /\ Goto(w, "pr_restore")
            /\ call' = [call EXCEPT ![w].i = 1]
            /\ UNCHANGED ret
       ELSE /\ Finish(w, "ok")
            /\ UNCHANGED call
    /\ UNCHANGED <<stock_quantity, cart_items, stock_reservations, payments, returns, tx,
                   calls, pre>>

\* ---------------------------------------------------------- step lists
CartSteps(w) ==
    \/ AtCheckStock(w) \/ RsGet(w) \/ RsAvail(w) \/ RsUpdate(w) \/ RsInsert(w)
    \/ AiGet(w) \/ AiUpdate(w) \/ AiInsert(w)
    \/ UcGet(w) \/ UcCheck(w) \/ UcRelease(w) \/ UcUpdate(w)
    \/ RmGet(w) \/ RmRelease(w) \/ RmDelete(w)
    \/ ClGet(w) \/ ClRelease(w) \/ ClDelete(w)

OrderSteps(w) ==
    \/ CoGetCart(w) \/ VaLoad(w) \/ VaCheck(w) \/ CoDeduct(w) \/ CoInsert(w)
    \/ CoCommit(w) \/ PayCheck(w) \/ PayCreate(w) \/ PayStatus(w)

\* ------------------------------------------------------ storage failures
\* A statement whose error the handler checks fails (connection lost, context
\* cancelled, constraint violated): the handler returns the error and its
\* deferred tx.Rollback discards what the transaction holds.
Failed(w) ==
    /\ tx' = [tx EXCEPT ![w] = NoTx]
    /\ Finish(w, "error")
    /\ UNCHANGED <<db, call, calls, pre>>

\* UpdateStockWithTx returns an error
FailDeduct(w) == pc[w] = "co_deduct" /\ Failed(w)

\* orderRepo.CreateWithTx returns an error
FailInsert(w) == pc[w] = "co_insert" /\ Failed(w)

\* cartSvc.ClearCart returns an error: its GetByUserID or, after the
\* reservations were released, its DELETE FROM cart_items
FailClearCart(w) == pc[w] \in {"cl_get", "cl_delete"} /\ Failed(w)

\* tx.Commit returns an error
FailCommit(w) == pc[w] = "co_commit" /\ Failed(w)

\* CancelOrder: UpdateStock returns an error
FailRestore(w) == pc[w] = "ca_restore" /\ Failed(w)

\* CancelOrder: orderRepo.UpdateStatus returns an error
FailStatus(w) == pc[w] = "ca_status" /\ Failed(w)

Faults(w) ==
    \/ FailDeduct(w) \/ FailInsert(w) \/ FailClearCart(w) \/ FailCommit(w)
    \/ FailRestore(w) \/ FailStatus(w)

\* ------------------------------------------------------- specifications
Starts(w, serial) ==
    \/ StartAddToCart(w, serial) \/ StartUpdateCartItem(w, serial)
    \/ StartRemoveFromCart(w, serial) \/ StartClearCart(w, serial)
    \/ StartCreateOrder(w, serial) \/ StartCancelOrder(w, serial)

Steps(w) ==
    \/ CartSteps(w) \/ OrderSteps(w)
    \/ CaGet(w) \/ CaRestore(w) \/ CaStatus(w)
    \/ Return(w)

\* Cart, order creation and cancellation requests served concurrently
Next ==
    \/ \E w \in Procs : Starts(w, FALSE) \/ Steps(w) \/ AtRelease(w)
    \/ TimePasses

Spec == Init /\ [][Next]_vars

\* The same requests served one after the other, all by one goroutine
NextSerial ==
    \/ Starts("w1", TRUE) \/ Steps("w1")
    \/ TimePasses

SpecSerial == Init /\ [][NextSerial]_vars

\* Serial requests against a store whose statements may fail
NextFault ==
    \/ Starts("w1", TRUE) \/ Steps("w1") \/ Faults("w1")
    \/ TimePasses

SpecFault == Init /\ [][NextFault]_vars

\* Cart requests only, served one after the other, with no time passing
NextCart ==
    \/ StartAddToCart("w1", TRUE) \/ StartUpdateCartItem("w1", TRUE)
    \/ StartRemoveFromCart("w1", TRUE) \/ StartClearCart("w1", TRUE)
    \/ CartSteps("w1") \/ Return("w1")

SpecCart == Init /\ [][NextCart]_vars

\* A failed payment creation that also marks the committed order cancelled
FailPaymentCancelsOrder(w) ==
    /\ pc[w] \in {"pay_check", "pay_create"}
    /\ orders' = StatusWritten(call[w].order, "cancelled")
    /\ Finish(w, "error")
    /\ UNCHANGED <<stock_quantity, cart_items, stock_reservations, payments, returns,
                   tx, call, calls, pre>>

\* CreatePaymentForOrder returns an error after the commit: its
\* orderRepo.GetByID or its paymentRepo.Create failed, and CreateOrder returns
\* that error
FailPayment(w) ==
    /\ pc[w] \in {"pay_check", "pay_create"}
    /\ Finish(w, "error")
    /\ UNCHANGED <<db, tx, call, calls, pre>>

\* Serial requests against a store whose payment statements may fail
NextPayFault ==
    \/ NextSerial
    \/ FailPayment("w1")

SpecPayFault == Init /\ [][NextPayFault]_vars

\* cartRepo.AddItem returns an error: AddToCart calls ReleaseStockReservation
\* and returns the error
FailAddItem(w) ==
    /\ pc[w] \in {"ai_get", "ai_update", "ai_insert"}
    /\ Goto(w, "at_release")
    /\ UNCHANGED <<db, tx, call, ret, calls, pre>>

\* cartRepo.UpdateItem returns an error: UpdateCartItem returns the error
FailUpdateItem(w) ==
    /\ pc[w] = "uc_update"
    /\ Finish(w, "error")
    /\ UNCHANGED <<db, tx, call, calls, pre>>

\* Cart requests served one after the other against a store whose cart-line
\* writes may fail
NextCartFault ==
    \/ NextCart
    \/ FailAddItem("w1") \/ AtRelease("w1") \/ FailUpdateItem("w1")

SpecCartFault == Init /\ [][NextCartFault]_vars

\* The status lifecycle: one order of u1 for one unit of p1 exists, in any
\* status the orders table admits (its CHECK constraint has no
\* return_requested); a card order has its payment, a cash order has none.
DbStatuses == Statuses \ {"return_requested"}

InitStatus ==
    /\ stock_quantity = [p \in Products |-> IF p = "p1" THEN MaxStock - 1 ELSE MaxStock]
    /\ cart_items = [c \in Users |-> <<>>]
    /\ stock_reservations = [c \in Users |-> [p \in Products |-> NoRow]]
    /\ \E st \in DbStatuses, m \in Methods :
          /\ m = "cod" => st # "refunded"
          /\ orders = <<[NewOrder("u1", m, <<[product |-> "p1", quantity |-> 1]>>)
                            EXCEPT !.status = st]>>
          /\ payments = IF m = "cc"
                        THEN <<[order |-> 1, amount |-> Price["p1"], method |-> m,
                                status |-> "completed"]>>
                        ELSE <<>>
    /\ returns = <<>>
    /\ tx = [w \in Procs |-> NoTx]
    /\ pc = [w \in Procs |-> "idle"]
    /\ call = [w \in Procs |-> NoCall]
    /\ ret = [w \in Procs |-> "none"]
    /\ calls = 0
    /\ pre = [w \in Procs |-> NoPre]

\* Status and cancellation requests on that order, served one after the other
NextStatus ==
    \/ StartUpdateOrderStatus("w1", TRUE) \/ UsGet("w1") \/ UsWrite("w1") \/ UsPay("w1")
    \/ StartCancelOrder("w1", TRUE) \/ CaGet("w1") \/ CaRestore("w1") \/ CaStatus("w1")
    \/ Return("w1")

SpecStatus == InitStatus /\ [][NextStatus]_vars

\* ------------------------------------------- returnService.CreateReturn
StartCreateReturn(w, serial) ==
    \E u \in Users, o \in 1..Len(orders) :
        Issue(w, serial, [NoCall EXCEPT !.op = "CreateReturn", !.user = u, !.order = o],
              "cr_get")

\* A return of the order that is requested or approved
HasOpenReturn(o) ==
    \E r \in 1..Len(returns) :
        returns[r].order = o /\ returns[r].status \in {"requested", "approved"}

\* orderRepo.GetByID, the ownership and status tests, the return period (which
\* depends on the clock) and returnRepo.GetByOrderID
CrGet(w) ==
    /\ pc[w] = "cr_get"
    /\ LET order == orders[call[w].order] IN
       IF order.user # call[w].user
       THEN Finish(w, "unauthorized")
       ELSE IF order.status \notin {"delivered", "completed"}
            THEN Finish(w, "order cannot be returned at this stage")
            ELSE \/ Finish(w, "return period has expired")
                 \/ IF HasOpenReturn(call[w].order)
                    THEN Finish(w, "return already requested for this order")
                    ELSE Goto(w, "cr_create") /\ UNCHANGED ret
    /\ UNCHANGED <<db, tx, call, calls, pre>>

\* returnRepo.Create with Status = requested, RefundAmount = order.TotalAmount
CrCreate(w) ==
    /\ pc[w] = "cr_create"
    /\ returns' = Append(returns,
          [order |-> call[w].order, status |-> "requested",
           refund |-> orders[call[w].order].total])
    /\ Goto(w, "cr_status")
    /\ UNCHANGED <<stock_quantity, cart_items, stock_reservations, orders, payments,
                   tx, call, ret, calls, pre>>

\* orderRepo.UpdateStatus(order.ID, return_requested): the CHECK constraint of
\* orders.status rejects a value it does not list, and CreateReturn returns
\* the error; the return row stays
CrStatus(w) ==
    /\ pc[w] = "cr_status"
    /\ IF "return_requested" \in DbStatuses
       THEN /\ orders' = StatusWritten(call[w].order, "return_requested")
            /\ Finish(w, "ok")
       ELSE /\ Finish(w, "error")
            /\ UNCHANGED orders
    /\ UNCHANGED <<stock_quantity, cart_items, stock_reservations, payments, returns,
                   tx, call, calls, pre>>

\* ------------------------------------------ returnService.ProcessReturn
StartProcessReturn(w, serial) ==
    \E r \in 1..Len(returns), t \in {"approved", "rejected"} :
        Issue(w, serial,
              [NoCall EXCEPT !.op = "ProcessReturn", !.rid = r, !.target = t,
                             !.order = returns[r].order],
              "pr_get")

\* returnRepo.GetByID and orderRepo.GetByID; the return's own status is not
\* looked at
PrGet(w) ==
    /\ pc[w] = "pr_get"
    /\ LET returnReq == returns[call[w].rid]
           order     == orders[returnReq.order]
       IN call' = [call EXCEPT ![w].order = returnReq.order, ![w].items = order.items,
                               ![w].qty = order.total, ![w].from = returnReq.status,
                               ![w].i = 1]
    /\ Goto(w, IF call[w].target = "approved" THEN "pr_pay" ELSE "pr_status")
    /\ UNCHANGED <<db, tx, ret, calls, pre>>

\* The newest payment of the order (ORDER BY created_at DESC LIMIT 1)
LatestPayment(o) ==
    CHOOSE k \in 1..Len(payments) :
        /\ payments[k].order = o
        /\ \A j \in 1..Len(payments) : payments[j].order = o => j <= k

\* paymentSvc.GetPaymentByOrderID: with no payment row GetByOrderID returns
\* pgx.ErrNoRows and ProcessReturn returns that error; with a payment,
\* ProcessRefund(payment.ID, order.TotalAmount) follows
PrPay(w) ==
    /\ pc[w] = "pr_pay"
    /\ IF HasPayment(call[w].order)
       THEN /\ call' = [call EXCEPT ![w].i = LatestPayment(call[w].order)]
            /\ Goto(w, "rf_get")
            /\ UNCHANGED ret
       ELSE /\ Finish(w, "error")
            /\ UNCHANGED call
    /\ UNCHANGED <<db, tx, calls, pre>>

\* for _, item := range order.Items { UpdateStock(item.ProductID, item.Quantity) }
PrRestore(w) ==
    /\ pc[w] = "pr_restore"
    /\ LET item == call[w].items[call[w].i] IN
       /\ LockedBy(item.product) = {}
       /\ stock_quantity' = UpdateStock(item.product, item.quantity)
    /\ call' = [call EXCEPT ![w].i = @ + 1]
    /\ Goto(w, IF call[w].i = Len(call[w].items) THEN "pr_status" ELSE "pr_restore")
    /\ UNCHANGED <<cart_items, stock_reservations, orders, payments, returns, tx, ret,
                   calls, pre>>

\* returnRepo.UpdateStatus(returnID, req.Status, returnReq.RefundAmount); the
\* order is not written
PrStatus(w) ==
    /\ pc[w] = "pr_status"
    /\ returns' = [returns EXCEPT ![call[w].rid].status = call[w].target]
    /\ Finish(w, "ok")
    /\ UNCHANGED <<stock_quantity, cart_items, stock_reservations, orders, payments,
                   tx, call, calls, pre>>

\* Return requests on the order of InitStatus and their processing by an
\* admin, served one after the other
NextReturn ==
    \/ StartCreateReturn("w1", TRUE) \/ CrGet("w1") \/ CrCreate("w1") \/ CrStatus("w1")
    \/ StartProcessReturn("w1", TRUE) \/ PrGet("w1") \/ PrPay("w1")
    \/ RfGet("w1") \/ RfPay("w1") \/ RfStatus("w1")
    \/ PrRestore("w1") \/ PrStatus("w1")
    \/ Return("w1")

SpecReturn == InitStatus /\ [][NextReturn]_vars

\* CancelOrder requests served by one goroutine while another serves
\* UpdateOrderStatus requests on the same order
NextStatusRace ==
    \/ StartCancelOrder("w1", FALSE) \/ CaGet("w1") \/ CaRestore("w1") \/ CaStatus("w1")
    \/ StartUpdateOrderStatus("w2", FALSE) \/ UsGet("w2") \/ UsWrite("w2") \/ UsPay("w2")
    \/ Return("w1") \/ Return("w2")

SpecStatusRace == InitStatus /\ [][NextStatusRace]_vars

\* The same order, with payment and refund requests as well and the goroutine
\* CreatePayment starts
NextPay ==
    \/ NextStatus
    \/ StartCreatePayment("w1", TRUE) \/ CpGet("w1") \/ CpCreate("w1")
    \/ SimPay("w2") \/ SimStatus("w2") \/ SimCancelled("w2")
    \/ StartProcessRefund("w1", TRUE) \/ RfGet("w1") \/ RfPay("w1") \/ RfStatus("w1")

SpecPay == InitStatus /\ [][NextPay]_vars

\* Concurrent order creation: the carts have been filled by earlier AddToCart
\* requests, each line with its reservation row, and a cart's reservations
\* may have expired since; the unexpired ones fit in the stock.
Lines == [product : Products, quantity : 1..MaxQty]

FilledCarts ==
    {<<>>} \cup {<<l>> : l \in Lines}
           \cup {<<ab[1], ab[2]>> : ab \in {x \in Lines \X Lines : x[1].product # x[2].product}}

InitOrders ==
    /\ stock_quantity = [p \in Products |-> MaxStock]
    /\ cart_items \in [Users -> FilledCarts]
    /\ \E lv \in [Users -> BOOLEAN] :
          stock_reservations =
             [c \in Users |-> [p \in Products |->
                 [quantity |-> QtyOf(cart_items[c], p),
                  live |-> lv[c] /\ HasLine(cart_items[c], p)]]]
    /\ \A p \in Products : GetAvailableStock(p) >= 0
    /\ orders = <<>>
    /\ payments = <<>>
    /\ returns = <<>>
    /\ tx = [w \in Procs |-> NoTx]
    /\ pc = [w \in Procs |-> "idle"]
    /\ call = [w \in Procs |-> NoCall]
    /\ ret = [w \in Procs |-> "none"]
    /\ calls = MaxRacing - 2        \* two CreateOrder requests are still to come
    /\ pre = [w \in Procs |-> NoPre]

\* CreateOrder requests of any users served concurrently
NextOrders ==
    \E w \in Procs :
        \/ StartCreateOrder(w, FALSE) \/ OrderSteps(w)
        \/ ClGet(w) \/ ClRelease(w) \/ ClDelete(w)
        \/ Return(w)

SpecOrders == InitOrders /\ [][NextOrders]_vars

\* The steps of a CreateOrder in flight.  The Go scheduler runs every runnable
\* goroutine and PostgreSQL answers every statement that is not waiting for a
\* lock, so a step that stays possible is eventually taken.
CreateOrderStep(w) ==
    \/ OrderSteps(w)
    \/ ClGet(w) \/ ClRelease(w) \/ ClDelete(w)

\* Both carts hold a line of each product, in either order, and their
\* reservations have expired, so that every cart passes validation
InitOrdersLive ==
    /\ InitOrders
    /\ \A c \in Users :
          /\ Len(cart_items[c]) = Cardinality(Products)
          /\ \A p \in Products : ~stock_reservations[c][p].live

SpecOrdersLive ==
    /\ InitOrdersLive /\ [][NextOrders]_vars
    /\ \A w \in Procs : WF_vars(CreateOrderStep(w))

\* ================================================================ claims
Done(w, op) == pc[w] = "done" /\ call[w].op = op

HeldQty(c) == [p \in Products |-> stock_reservations[c][p].quantity]
PreHeldQty(w) == [p \in Products |-> pre[w].resv[p].quantity]

\* Units of product p in the lines of order o
OrderedQty(o, p) ==
    LET ls == orders[o].items IN
    IF \E k \in 1..Len(ls) : ls[k].product = p
    THEN ls[CHOOSE k \in 1..Len(ls) : ls[k].product = p].quantity
    ELSE 0

\* C1: in every reachable state, for every product, the ledger stock quantity
\* minus the sum of the quantities of its unexpired reservations is >= 0.
C1_AvailableNeverNegative ==
    \A p \in Products : stock_quantity[p] - SumLive(p, Users) >= 0

\* C2: when ReserveStock calls of different carts for the same product run
\* concurrently and have both succeeded, and no reservation of the product has
\* expired, what they reserved does not exceed the stock: GetAvailableStock
\* is not negative.
JustReserved(w) ==
    /\ call[w].rq > 0
    /\ pc[w] \in {"ai_get", "ai_update", "ai_insert", "uc_update"}

C2_ConcurrentReserveNoOvershoot ==
    \A w \in Procs, x \in Procs :
        ( /\ w # x
          /\ JustReserved(w) /\ JustReserved(x)
          /\ call[w].product = call[x].product
          /\ call[w].user # call[x].user
          /\ \A c \in Users :
                LET r == stock_reservations[c][call[w].product]
                IN r.quantity > 0 => r.live )
        => GetAvailableStock(call[w].product) >= 0

\* C3: a CreateOrder that fails after its transaction was opened leaves every
\* product's stock, the set of orders, the user's cart lines and the user's
\* reservations as they were before the call.
C3_FailedCreateOrderLeavesNoTrace ==
    \A w \in Procs :
        (Done(w, "CreateOrder") /\ ret[w] \in {"error", "failed to update stock"})
        => /\ stock_quantity = pre[w].stock
           /\ Len(orders) = pre[w].norders
           /\ cart_items[call[w].user] = pre[w].items
           /\ HeldQty(call[w].user) = PreHeldQty(w)

\* C4: a successful CreateOrder persists exactly one order whose total is the
\* sum of price * quantity over the cart lines and whose lines repeat the cart
\* lines (product, quantity, price); each product's stock drops by exactly the
\* line quantity; the cart is left with no line and no reservation.
C4_CreateOrderRoundTrip ==
    \A w \in Procs :
        (Done(w, "CreateOrder") /\ ret[w] = "ok")
        => LET u    == call[w].user
               cart == pre[w].items
               o    == orders[Len(orders)]
           IN /\ Len(orders) = pre[w].norders + 1
              /\ o.user = u
              /\ o.total = Price["p1"] * QtyOf(cart, "p1") + Price["p2"] * QtyOf(cart, "p2")
              /\ Len(o.items) = Len(cart)
              /\ \A k \in 1..Len(cart) :
                    /\ o.items[k].product = cart[k].product
                    /\ o.items[k].quantity = cart[k].quantity
                    /\ o.items[k].price = Price[cart[k].product]
              /\ \A p \in Products :
                    stock_quantity[p] = pre[w].stock[p] - QtyOf(cart, p)
              /\ cart_items[u] = <<>>
              /\ \A p \in Products : stock_reservations[u][p].quantity = 0

C4_Witness ==
    \E w \in Procs :
        /\ Done(w, "CreateOrder") /\ ret[w] = "ok"
        /\ Len(pre[w].items) = 2
        /\ \E p \in Products : QtyOf(pre[w].items, p) = 2

\* C5: a CreateOrder that fails the cart re-validation returns the validation
\* error and leaves every product's stock, the cart's lines, its reservations
\* and the orders unchanged.
C5_InvalidCartChangesNothing ==
    \A w \in Procs :
        (Done(w, "CreateOrder") /\ ~call[w].valid)
        => /\ ret[w] = "cart validation failed"
           /\ stock_quantity = pre[w].stock
           /\ cart_items[call[w].user] = pre[w].items
           /\ HeldQty(call[w].user) = PreHeldQty(w)
           /\ Len(orders) = pre[w].norders

\* a two-line cart, one line passing the stock check and one failing it
C5_Witness ==
    \E w \in Procs :
        /\ Done(w, "CreateOrder") /\ ret[w] = "cart validation failed"
        /\ Len(pre[w].items) = 2
        /\ \E k \in 1..2 : CheckStock(pre[w].items[k].product, pre[w].items[k].quantity)
        /\ \E k \in 1..2 : ~CheckStock(pre[w].items[k].product, pre[w].items[k].quantity)

\* C6: re-validation does not count the cart's own reservation against its own
\* line: a line of quantity q of product P is found valid whenever P's stock
\* minus the unexpired reservations of the other carts is >= q.
C6_OwnReservationNotCounted ==
    [][\A w \in Procs :
        ( /\ pc[w] = "va_check"
          /\ call[w].valid
          /\ <<pc[w], call[w].i>> # <<pc'[w], call'[w].i>>
          /\ LET item == call[w].aux[call[w].i]
             IN GetAvailableStockExcludingCart(item.product, call[w].user)
                    >= item.quantity )
        => call'[w].valid]_vars

\* C7: CancelOrder by the owner on a pending or processing order adds exactly
\* each line's quantity to the product's stock and sets the status to
\* cancelled; a later CancelOrder on that order fails as not cancellable and
\* changes no stock.
C7_CancelRestoresOnce ==
    \A w \in Procs :
        Done(w, "CancelOrder")
        => LET o == call[w].order IN
           /\ (orders[o].user = call[w].user /\ pre[w].status \in {"pending", "processing"})
              => /\ ret[w] = "ok"
                 /\ orders[o].status = "cancelled"
                 /\ \A p \in Products :
                       stock_quantity[p] = pre[w].stock[p] + OrderedQty(o, p)
           /\ pre[w].status = "cancelled"
              => /\ ret[w] \in {"cannot be cancelled", "unauthorized"}
                 /\ stock_quantity = pre[w].stock
                 /\ orders[o].status = "cancelled"

\* the later CancelOrder, by the owner, on an order a CancelOrder cancelled
C7_Witness ==
    \E w \in Procs :
        /\ Done(w, "CancelOrder")
        /\ pre[w].status = "cancelled"
        /\ orders[call[w].order].user = call[w].user
        /\ ret[w] = "cannot be cancelled"

\* C8: CancelOrder's stock restorations and its status write are
\* all-or-nothing: when the call has returned, the order's quantities have
\* been added back to the stock if and only if the call set the status to
\* cancelled.
C8_CancelAllOrNothing ==
    \A w \in Procs :
        Done(w, "CancelOrder")
        => ( (stock_quantity # pre[w].stock)
             <=> (orders[call[w].order].status = "cancelled"
                  /\ pre[w].status # "cancelled") )

\* The legal-transition table of the order status state machine
LegalTargets(from) ==
    CASE from = "pending"          -> {"processing", "cancelled"}
      [] from = "processing"       -> {"shipped", "delivered", "completed", "cancelled"}
      [] from = "shipped"          -> {"delivered", "completed"}
      [] from = "delivered"        -> {"completed", "return_requested"}
      [] from = "return_requested" -> {"refunded", "delivered"}
      [] OTHER                     -> {}

\* C9: UpdateOrderStatus never persists a status change that is not an edge
\* of the legal-transition table: a request for such an edge fails with the
\* invalid-transition error and leaves the status unchanged, while
\* delivered -> completed succeeds.
C9_NoIllegalEdgePersisted ==
    \A w \in Procs :
        Done(w, "UpdateOrderStatus")
        => LET now  == orders[call[w].order].status
               from == pre[w].status
               to   == call[w].target
           IN /\ now = from \/ now \in LegalTargets(from)
              /\ (to # from /\ to \notin LegalTargets(from))
                 => (ret[w] = "invalid status transition" /\ now = from)
              /\ (from = "delivered" /\ to = "completed")
                 => (ret[w] = "ok" /\ now = "completed")

C9_Witness ==
    /\ \E w \in Procs :
          /\ Done(w, "UpdateOrderStatus")
          /\ pre[w].status = "shipped" /\ call[w].target = "pending"
          /\ ret[w] = "invalid status transition"
    /\ orders[1].status = "shipped"

\* C10: UpdateOrderStatus accepts every edge of the legal-transition table
\* and persists the target status.
C10_EveryLegalEdgePersisted ==
    \A w \in Procs :
        (Done(w, "UpdateOrderStatus") /\ call[w].target \in LegalTargets(pre[w].status))
        => orders[call[w].order].status = call[w].target

\* C11: once an order's status is cancelled or refunded it never changes
\* again, and a completed order changes only to return_requested, whatever
\* operation runs.
C11_TerminalStatusesStay ==
    [][\A o \in 1..Len(orders) :
          /\ orders[o].status \in {"cancelled", "refunded"}
                => orders'[o].status = orders[o].status
          /\ orders[o].status = "completed"
                => orders'[o].status \in {"completed", "return_requested"}]_vars

\* C12: after any sequence of completed AddToCart, UpdateCartItem,
\* RemoveFromCart and ClearCart calls, with no reservation expired, a cart has
\* a line for product P if and only if a reservation for (P, cart) exists, and
\* the line's quantity equals the reservation's quantity.
C12_LineIffReservation ==
    (\A w \in Procs : pc[w] = "idle")
    => \A c \in Users, p \in Products :
          /\ HasLine(cart_items[c], p) <=> stock_reservations[c][p].quantity > 0
          /\ QtyOf(cart_items[c], p) = stock_reservations[c][p].quantity

\* Number of cart lines of cart c for product p
LinesFor(c, p) == Cardinality({k \in 1..Len(cart_items[c]) : cart_items[c][k].product = p})

\* C13: AddToCart(P, a) followed by AddToCart(P, b) on the same cart, with
\* a + b within the available stock, leaves exactly one cart line for P with
\* quantity a + b and one reservation for (P, cart) with quantity a + b.
C13_AddTwiceMerges ==
    \A w \in Procs :
        LET c == call[w].user
            p == call[w].product
            a == QtyOf(pre[w].items, p)
            b == call[w].qty
        IN ( /\ Done(w, "AddToCart")
             /\ a > 0 /\ pre[w].resv[p].quantity = a
             /\ a + b <= GetAvailableStockExcludingCart(p, c) )
           => /\ ret[w] = "ok"
              /\ LinesFor(c, p) = 1
              /\ QtyOf(cart_items[c], p) = a + b
              /\ stock_reservations[c][p] = [quantity |-> a + b, live |-> TRUE]

C13_Witness ==
    \E w \in Procs :
        /\ Done(w, "AddToCart") /\ ret[w] = "ok"
        /\ QtyOf(pre[w].items, call[w].product) = 1 /\ call[w].qty = 2
        /\ pre[w].resv[call[w].product].quantity = 1
        /\ QtyOf(cart_items[call[w].user], call[w].product) = 3

\* The payment rows of order o
PaymentsOf(o) == {k \in 1..Len(payments) : payments[k].order = o}

C15_CodPaymentOnDelivered ==
    \A w \in Procs :
        LET o == call[w].order IN
        ( /\ Done(w, "UpdateOrderStatus")
          /\ call[w].target = "delivered" /\ pre[w].status = "shipped"
          /\ orders[o].method = "cod" )
        => /\ ret[w] = "ok"
           /\ Cardinality(PaymentsOf(o)) = 1

\* C16: CancelOrder fails, and changes neither the order's status nor any
\* product's stock, when the caller is not the order's owner or when the
\* order's status is anything other than pending or processing.
C16_CancelRefused ==
    \A w \in Procs :
        LET o == call[w].order IN
        ( /\ Done(w, "CancelOrder")
          /\ \/ orders[o].user # call[w].user
             \/ pre[w].status \notin {"pending", "processing"} )
        => /\ ret[w] \in {"unauthorized", "cannot be cancelled"}
           /\ orders[o].status = pre[w].status
           /\ stock_quantity = pre[w].stock

\* a caller who is not the owner, on an order that could be cancelled
C16_Witness ==
    \E w \in Procs :
        /\ Done(w, "CancelOrder")
        /\ orders[call[w].order].user # call[w].user
        /\ pre[w].status = "pending"
        /\ ret[w] = "unauthorized"

\* C17: UpdateOrderStatus with a target equal to the order's current status
\* returns success without writing the status and without any side effect
\* (no payment is created), for every status including the terminal ones.
C17_SameStatusIsNoOp ==
    [][\A w \in Procs :
          ( /\ pc[w] = "us_get" /\ pc'[w] # "us_get"
            /\ orders[call[w].order].status = call[w].target )
          => /\ pc'[w] = "done"
             /\ ret'[w] = "ok"
             /\ db' = db]_vars

\* a cash order already delivered, asked to become delivered
C17_Witness ==
    \E w \in Procs :
        /\ Done(w, "UpdateOrderStatus") /\ ret[w] = "ok"
        /\ pre[w].status = "delivered" /\ call[w].target = "delivered"
        /\ orders[call[w].order].method = "cod"
        /\ payments = <<>>

\* Units of product p, over the given carts, held by rows that pass their
\* expiry in this step and stay in the table
RECURSIVE ExpiringQty(_, _)
ExpiringQty(p, carts) ==
    IF carts = {} THEN 0
    ELSE LET c == CHOOSE x \in carts : TRUE
             r == stock_reservations[c][p]
         IN (IF r.live /\ stock_reservations'[c][p] = [r EXCEPT !.live = FALSE]
             THEN r.quantity ELSE 0) + ExpiringQty(p, carts \ {c})

\* C18: a reservation whose expiry time has passed contributes nothing to
\* GetAvailableStock or GetAvailableStockExcludingCart although its row still
\* exists: from the moment of expiry the available stock is higher by that
\* reservation's quantity, with no delete involved.
C18_ExpiredReservationNotCounted ==
    [][( /\ stock_quantity' = stock_quantity
         /\ \A c \in Users, p \in Products :
               LET r == stock_reservations[c][p]
               IN stock_reservations'[c][p] \in {r, [r EXCEPT !.live = FALSE]} )
       => \A p \in Products :
             /\ GetAvailableStock(p)' = GetAvailableStock(p) + ExpiringQty(p, Users)
             /\ \A c \in Users :
                   GetAvailableStockExcludingCart(p, c)'
                     = GetAvailableStockExcludingCart(p, c) + ExpiringQty(p, Users \ {c})]_vars

\* an expired row still in the table, and all the stock available again
C18_Witness ==
    \E c \in Users, p \in Products :
        /\ stock_reservations[c][p].quantity > 0
        /\ ~stock_reservations[c][p].live
        /\ GetAvailableStock(p) = stock_quantity[p]
        /\ \A d \in Users \ {c} : stock_reservations[d][p].quantity = 0

\* C19: Reserve for a (product, cart) pair that already has a row of quantity
\* e, requesting r more, succeeds exactly when the stock minus the unexpired
\* reservations of all other carts is >= e + r; on success the row's quantity
\* becomes e + r, on failure the row is unchanged; also when the row has expired.
C19_ReserveOnExistingRow ==
    [][\A w \in Procs :
          LET c == call[w].user
              p == call[w].product
              e == stock_reservations[c][p].quantity
              r == call[w].rq
          IN /\ (pc[w] = "rs_avail" /\ pc'[w] # "rs_avail")
                => /\ pc'[w] = "rs_update"
                        <=> GetAvailableStockExcludingCart(p, c) >= e + r
                   /\ stock_reservations' = stock_reservations
             /\ (pc[w] = "rs_update" /\ pc'[w] # "rs_update")
                => stock_reservations'[c][p].quantity = e + r]_vars

\* C20: UpdateCartItem that lowers a line's quantity from q to q' (0 < q' < q)
\* leaves a reservation for that product and cart with quantity q', so the
\* product's available stock rises by exactly q - q'.
C20_LoweringKeepsReservation ==
    \A w \in Procs :
        LET c == call[w].user
            p == call[w].product
        IN ( /\ Done(w, "UpdateCartItem") /\ ret[w] = "ok"
             /\ call[w].qty < QtyOf(pre[w].items, p)
             /\ pre[w].resv[p].quantity = QtyOf(pre[w].items, p) )
           => /\ stock_reservations[c][p].quantity = call[w].qty
              /\ stock_reservations[c][p].live

\* C21: if the cart-line write fails after AddToCart or UpdateCartItem has
\* changed the reservation, the reservation for (product, cart) is put back to
\* the quantity it had before the call, so a failed call never leaves the
\* reservation larger or smaller than the cart line.
C21_FailedLineWriteRestoresReservation ==
    \A w \in Procs :
        LET c == call[w].user
            p == call[w].product
        IN ( /\ pc[w] = "done" /\ call[w].op \in {"AddToCart", "UpdateCartItem"}
             /\ ret[w] = "error"
             /\ pre[w].resv[p].quantity = QtyOf(pre[w].items, p) )
           => /\ stock_reservations[c][p].quantity = pre[w].resv[p].quantity
              /\ stock_reservations[c][p].quantity = QtyOf(cart_items[c], p)

\* Units of product p in the lines of the first n orders
RECURSIVE OrderedUpTo(_, _)
OrderedUpTo(p, n) == IF n = 0 THEN 0 ELSE OrderedQty(n, p) + OrderedUpTo(p, n - 1)

\* C22: when CreateOrder calls run concurrently on the same product and the
\* ledger cannot cover all of them, the orders that commit deduct in total no
\* more than the ledger held (the stock is what it was minus exactly the
\* committed order lines, and not negative), and every call that loses on the
\* stock fails with its deductions rolled back: no open transaction, no order.
C22_ConcurrentOrdersWithinLedger ==
    /\ \A p \in Products :
          /\ stock_quantity[p] >= 0
          /\ stock_quantity[p] + OrderedUpTo(p, Len(orders)) = MaxStock
    /\ \A w \in Procs :
          (Done(w, "CreateOrder") /\ ret[w] = "failed to update stock")
          => tx[w] = NoTx /\ call[w].order = 0

\* u's call lost on a product of which another user's committed order took units
C22_Witness ==
    \E w \in Procs, p \in Products :
        /\ Done(w, "CreateOrder") /\ ret[w] = "failed to update stock"
        /\ HasLine(call[w].items, p)
        /\ Len(call[w].items) = 2
        /\ Len(orders) = 1 /\ orders[1].user # call[w].user
        /\ OrderedQty(1, p) + QtyOf(call[w].items, p) > MaxStock

\* C23: the ledger adjustment with delta d on a product of quantity s sets the
\* quantity to s + d when s + d >= 0 and otherwise fails leaving s unchanged,
\* never clamping to zero (UpdateStockWithTx in CreateOrder, on the quantity
\* its transaction sees; UpdateStock in CancelOrder); so no product's stock
\* quantity is negative in any reachable state, committed or inside a
\* transaction.
C23_LedgerAdjustment ==
    /\ [](\A p \in Products :
            /\ stock_quantity[p] >= 0
            /\ \A w \in Procs : stock_quantity[p] + tx[w].delta[p] >= 0)
    /\ [][\A w \in Procs :
            /\ ( /\ pc[w] = "co_deduct" /\ call[w].items # <<>>
                 /\ RowFree(call[w].items[call[w].i].product, w)
                 /\ (pc'[w] # "co_deduct" \/ call'[w].i # call[w].i) )
               => LET item == call[w].items[call[w].i]
                      p    == item.product
                      s    == stock_quantity[p] + tx[w].delta[p]
                      d    == 0 - item.quantity
                  IN IF s + d >= 0
                  THEN /\ stock_quantity'[p] + tx'[w].delta[p] = s + d
                       /\ pc'[w] # "done"
                  ELSE /\ pc'[w] = "done" /\ ret'[w] = "failed to update stock"
                       /\ stock_quantity' = stock_quantity
                       /\ tx'[w] = NoTx
            /\ ( /\ pc[w] = "ca_restore"
                 /\ (pc'[w] # "ca_restore" \/ call'[w].i # call[w].i) )
               => LET item == call[w].items[call[w].i]
                  IN stock_quantity'[item.product]
                       = stock_quantity[item.product] + item.quantity]_vars

\* a deduction was refused because the stock left is less than the line asks
C23_Witness ==
    \E w \in Procs, p \in Products :
        /\ Done(w, "CreateOrder") /\ ret[w] = "failed to update stock"
        /\ HasLine(call[w].items, p)
        /\ stock_quantity[p] < QtyOf(call[w].items, p)
        /\ stock_quantity[p] > 0

\* C24: when CancelOrder runs concurrently with UpdateOrderStatus on the same
\* order, the order is never set to cancelled, and its stock is never
\* restored, once its status has moved to shipped or later.
ShippedOrLater == {"shipped", "delivered", "completed", "return_requested", "refunded"}

C24_NoCancelOnceShipped ==
    [][\A o \in 1..Len(orders) :
          orders[o].status \in ShippedOrLater
          => /\ orders'[o].status # "cancelled"
             /\ stock_quantity' = stock_quantity]_vars

\* C25: processing a return request as approved adds each order line's
\* quantity back to the ledger and sets the order's status to refunded;
\* processing the same return as approved a second time adds no stock again.
C25_ApprovedReturnRestoresOnce ==
    \A w \in Procs :
        (Done(w, "ProcessReturn") /\ call[w].target = "approved")
        => /\ call[w].from = "requested"
              => /\ ret[w] = "ok"
                 /\ orders[call[w].order].status = "refunded"
                 /\ \A p \in Products :
                       stock_quantity[p] = pre[w].stock[p] + OrderedQty(call[w].order, p)
           /\ call[w].from = "approved" => stock_quantity = pre[w].stock

\* C26: processing a return request as rejected moves the order's status
\* back to delivered and restores no stock.
C26_RejectedReturnBackToDelivered ==
    \A w \in Procs :
        (Done(w, "ProcessReturn") /\ call[w].target = "rejected"
           /\ call[w].from = "requested" /\ ret[w] = "ok")
        => /\ orders[call[w].order].status = "delivered"
           /\ stock_quantity = pre[w].stock

\* C27: if payment creation fails after the order transaction has committed,
\* the order stays persisted with status pending and no payment record, its
\* stock deductions and the cart clearing stay in effect, and CreateOrder
\* reports an error to the caller.
C27_PaymentFailureKeepsOrder ==
    \A w \in Procs :
        (Done(w, "CreateOrder") /\ call[w].order > 0 /\ ret[w] # "ok")
        => LET u == call[w].user
               o == call[w].order
           IN /\ ret[w] = "error"
              /\ o = pre[w].norders + 1 /\ Len(orders) = o
              /\ orders[o].status = "pending"
              /\ orders[o].user = u
              /\ ~HasPayment(o)
              /\ \A p \in Products :
                    /\ stock_quantity[p] = pre[w].stock[p] - QtyOf(pre[w].items, p)
                    /\ OrderedQty(o, p) = QtyOf(pre[w].items, p)
                    /\ stock_reservations[u][p].quantity = 0
              /\ cart_items[u] = <<>>

\* a card order of two units whose payment could not be created
C27_Witness ==
    \E w \in Procs :
        /\ Done(w, "CreateOrder") /\ ret[w] = "error"
        /\ call[w].order > 0 /\ call[w].method = "cc"
        /\ orders[call[w].order].status = "pending"
        /\ \E p \in Products : OrderedQty(call[w].order, p) = 2
        /\ ~HasPayment(call[w].order)

\* C28: two concurrent CreateOrder calls by the same user on the same cart
\* contents produce at most one order: the cart's lines are turned into order
\* lines once (no request refills a cart here, so a user has at most one order).
OrdersOf(u) == {o \in 1..Len(orders) : orders[o].user = u}

C28_CartOrderedOnce ==
    \A u \in Users : Cardinality(OrdersOf(u)) <= 1

\* C29: a cart line added or changed by AddToCart or UpdateCartItem while a
\* CreateOrder of the same user is in progress is never deleted without being
\* ordered: every line CreateOrder removes from the cart corresponds to a line
\* of its order with the same product and quantity, and every reservation it
\* deletes belongs to such a line.
InOrder(w, p, q) ==
    \E j \in 1..Len(tx[w].order.items) :
        /\ tx[w].order.items[j].product = p
        /\ tx[w].order.items[j].quantity = q

C29_OnlyOrderedLinesCleared ==
    [][\A w \in Procs :
          LET u == call[w].user IN
          ( /\ call[w].op = "CreateOrder" /\ pc[w] \in {"cl_release", "cl_delete"}
            /\ (pc'[w] # pc[w] \/ call'[w].i # call[w].i) )
          => /\ \A k \in 1..Len(cart_items[u]) :
                   ~HasLine(cart_items'[u], cart_items[u][k].product)
                   => InOrder(w, cart_items[u][k].product, cart_items[u][k].quantity)
             /\ \A p \in Products :
                   ( stock_reservations[u][p].quantity > 0
                     /\ stock_reservations'[u][p].quantity = 0 )
                   => InOrder(w, p, QtyOf(tx[w].order.items, p))]_vars

=============================================================================
